---- MODULE Spec2Model ----
(***************************************************************************)
(* Model of the claim validation pipeline of OBSERVATORIO ETS              *)
(* (src/validation.py, src/database.py).                                   *)
(*                                                                         *)
(* Numbers: a per-claim confidence is a float in the code; here it is the  *)
(* integer number of hundredths (0.8 is 80, 85.0 is 8500).  Weights are    *)
(* kept exactly as well (data weight in tenths, final weight in            *)
(* hundredths), and the overall confidence is the exact reduced fraction   *)
(* [num, den], so that equalities are those of exact arithmetic.           *)
(* Text: a string the code inspects character by character is a tuple of   *)
(* one-character strings.                                                  *)
(***************************************************************************)
EXTENDS Integers, Sequences, FiniteSets, TLC

\* ------------------------------------------------------------------ bounds
MaxClaims == 2
MaxRows == 25
MaxRecords == 2

\* ------------------------------------------------------- helper arithmetic
Min(a, b) == IF a <= b THEN a ELSE b

RECURSIVE Gcd(_, _)
Gcd(a, b) == IF b = 0 THEN a ELSE Gcd(b, a % b)

\* the exact value n/d (n >= 0, d > 0) as a reduced fraction
Frac(n, d) == LET g == Gcd(n, d) IN [num |-> n \div g, den |-> d \div g]

FracLeq(x, y) == x.num * y.den <= y.num * x.den

Zero == [num |-> 0, den |-> 1]
One == [num |-> 1, den |-> 1]

\* ---------------------------------------------------------- text helpers
Digits == {"0", "1", "2", "3", "4", "5", "6", "7", "8", "9"}

DigitVal(c) ==
    CASE c = "0" -> 0 [] c = "1" -> 1 [] c = "2" -> 2 [] c = "3" -> 3
      [] c = "4" -> 4 [] c = "5" -> 5 [] c = "6" -> 6 [] c = "7" -> 7
      [] c = "8" -> 8 [] c = "9" -> 9

\* str.isdigit(): non-empty and every character a digit
IsDigit(s) == Len(s) > 0 /\ \A k \in 1..Len(s) : s[k] \in Digits

RECURSIVE IntOf(_)
IntOf(s) == IF Len(s) = 0 THEN 0
            ELSE 10 * IntOf(SubSeq(s, 1, Len(s) - 1)) + DigitVal(s[Len(s)])

\* ---------------------------------------------------------------- claims
\* an optional descriptor as the JSON of the model carries it: null, a
\* string, a number, a list of strings, or an object {"ports": [...]}
None == [t |-> "none", s |-> <<>>]
Str(s) == [t |-> "str", s |-> s]
Num(s) == [t |-> "int", s |-> s]
List(items) == [t |-> "list", s |-> items]
Dict(ports) == [t |-> "dict", s |-> ports]

\* truthiness of a descriptor (Python `not x`)
Truthy(d) ==
    CASE d.t = "none" -> FALSE
      [] d.t = "str" -> Len(d.s) > 0
      [] d.t = "int" -> IntOf(d.s) # 0
      [] d.t = "list" -> Len(d.s) > 0
      [] d.t = "dict" -> TRUE

\* a claim_type as the JSON carries it: a string, null, a number, or a list
TypeStr(name) == [t |-> "str", name |-> name]
TypeNone == [t |-> "none", name |-> ""]
TypeNum(name) == [t |-> "int", name |-> name]
TypeList(name) == [t |-> "list", name |-> name]

ValidationClaim(text, type, vessel, route, period) ==
    [claim_text |-> text, claim_type |-> type, vessel |-> vessel,
     route |-> route, period |-> period]

\* text as the tuple of its characters
MSC == <<"M", "S", "C">>
Quarter2025Q1 == <<"2", "0", "2", "5", "Q", "1">>

ClaimValues ==
    { ValidationClaim("MSC calls", TypeStr("port_frequency"), Str(MSC), None,
                      Str(Quarter2025Q1)),
      ValidationClaim("IMO moved", TypeStr("vessel_movement"),
                      Num(<<"9", "1", "2", "3", "4", "5", "6">>), None, None) }


\* ------------------------------------------------------------- exceptions
\* what a call returns: a value, or an exception with its text
Ok(v) == [raised |-> FALSE, error |-> "", value |-> v]
Raise(e, v) == [raised |-> TRUE, error |-> e, value |-> v]

AttributeError == "'int' object has no attribute 'isdigit'"
ValueError == "could not convert string to float"
TrafficError == "traffic query failed"
EtsoError == "ETSO query failed"
CompletionError == "completion call failed"

\* ------------------------------------------------------------ ClaimExtractor
\* a key of a JSON object of the response: present with a value, or missing
Key(v) == [present |-> TRUE, value |-> v]
NoTextKey == [present |-> FALSE, value |-> ""]
NoTypeKey == [present |-> FALSE, value |-> TypeNone]

\* an item of a parsed JSON list: a non-empty object with these of the keys
\* the extractor reads (and possibly others, such as metric), or a JSON string
JsonObject(text, type, vessel, route, period) ==
    [k |-> "object", claim_text |-> text, claim_type |-> type,
     vessel |-> vessel, route |-> route, period |-> period]
JsonString ==
    [k |-> "string", claim_text |-> NoTextKey, claim_type |-> NoTypeKey,
     vessel |-> None, route |-> None, period |-> None]
ObjectOf(claim) ==
    JsonObject(Key(claim.claim_text), Key(claim.claim_type), claim.vessel,
               claim.route, claim.period)

\* number of bracketed lists written inside an object
ListCount(o) ==
    Cardinality({f \in {"vessel", "route", "period"} :
                    o[f].t \in {"list", "dict"}})

\* a quoted sentence of a prose response: its text, its length, and the
\* keywords of the fallback patterns it contains (case ignored)
Sentence(text, length, words) ==
    [text |-> text, length |-> length, words |-> words]

\* the body of a response: a JSON array, one JSON object, another JSON value
\* (number, string, null), or prose with quoted sentences
JsonArray(items) == [j |-> "array", items |-> items]
JsonSingle(o) == [j |-> "object", items |-> <<o>>]
JsonScalar == [j |-> "scalar", items |-> <<>>]
Prose(sentences) == [j |-> "text", items |-> sentences]

\* response.content: the body, in a ``` fence or not, with prose before
\* and after it or not
Content(fence, before, after, body) ==
    [fence |-> fence, before |-> before, after |-> after, body |-> body]
NoContent == Content(FALSE, FALSE, FALSE, JsonScalar)

\* what json.loads or the fallback returned: a list, a dict or another value
Parsed(kind, items) == [kind |-> kind, items |-> items]

ClaimPatterns ==
    << {"vessel", "ship", "container", "route", "port", "transit", "cargo"},
       {"increase", "decrease", "change", "impact", "reduction"},
       {"maersk", "msc", "cosco", "cma", "evergreen"},
       {"suez", "red sea", "mediterranean", "asia", "europe"} >>

\* _fallback_parse: the classification of a matched sentence
FallbackType(words) ==
    CASE words \cap {"vessel", "ship", "fleet"} # {} -> "vessel_movement"
      [] words \cap {"route", "corridor", "service"} # {} -> "route_pattern"
      [] words \cap {"port", "terminal", "hub"} # {} -> "port_frequency"
      [] words \cap {"transit", "time", "duration"} # {} -> "transit_time"
      [] words \cap {"co2", "carbon", "emission", "fuel"} # {} ->
             "fuel_consumption"
      [] OTHER -> "general"

RECURSIVE Unique(_, _)
Unique(items, seen) ==
    IF Len(items) = 0 THEN <<>>
    ELSE IF Head(items).claim_text.value \in seen
         THEN Unique(Tail(items), seen)
         ELSE <<Head(items)>>
              \o Unique(Tail(items),
                        seen \cup {Head(items).claim_text.value})

RECURSIVE FallbackMatches(_, _)
FallbackMatches(sentences, p) ==
    IF p > Len(ClaimPatterns) THEN <<>>
    ELSE SelectSeq(sentences,
                   LAMBDA s : s.words \cap ClaimPatterns[p] # {}
                              /\ s.length > 20)
         \o FallbackMatches(sentences, p + 1)

\* _fallback_parse
fallback_parse(sentences) ==
    LET matches == FallbackMatches(sentences, 1)
        found == [n \in 1..Len(matches) |->
                     JsonObject(Key(matches[n].text),
                                Key(TypeStr(FallbackType(matches[n].words))),
                                None, None, None)]
        unique_claims == Unique(found, {})
    IN  SubSeq(unique_claims, 1, Min(5, Len(unique_claims)))

\* _parse_json_response
parse_json_response(content) ==
    LET body == content.body
        \* the fence is stripped only when the text starts with it, and its
        \* closing part only when the text ends with it
        leading == content.before
        trailing == content.after \/ (content.fence /\ content.before)
        direct == body.j # "text" /\ ~leading /\ ~trailing
        lists == IF body.j = "object" THEN ListCount(body.items[1]) ELSE 0
    IN  CASE direct ->
                 Parsed(CASE body.j = "array" -> "list"
                          [] body.j = "object" -> "dict"
                          [] OTHER -> "scalar", body.items)
          [] ~direct /\ body.j = "array" -> Parsed("list", body.items)
          [] ~direct /\ body.j = "object" /\ lists = 1 ->
                 Parsed("list", <<JsonString>>)
          [] ~direct /\ body.j = "object" /\ lists # 1 ->
                 Parsed("list", body.items)
          [] ~direct /\ body.j = "text" ->
                 Parsed("list", fallback_parse(body.items))
          [] OTHER -> Parsed("list", <<>>)

\* extract_claims, the body of its try: the completion call, the parse and
\* the conversion of each item with .get
convert_claims(response) ==
    IF response.raised THEN Raise(response.error, <<>>)
    ELSE LET claims_data == parse_json_response(response.value)
             items == claims_data.items
         IN  CASE claims_data.kind = "scalar" -> Raise("TypeError", <<>>)
               [] claims_data.kind = "dict" -> Raise(AttributeError, <<>>)
               [] claims_data.kind = "list"
                  /\ \E n \in 1..Len(items) : items[n].k # "object" ->
                      Raise(AttributeError, <<>>)
               [] OTHER ->
                      Ok([n \in 1..Len(items) |->
                            ValidationClaim(
                                IF items[n].claim_text.present
                                THEN items[n].claim_text.value ELSE "",
                                IF items[n].claim_type.present
                                THEN items[n].claim_type.value
                                ELSE TypeStr("general"),
                                items[n].vessel, items[n].route,
                                items[n].period)])

extract_claims_completion_only(response) ==
    LET converted == convert_claims(response)
    IN  IF converted.raised /\ converted.error = CompletionError
        THEN Ok(<<>>) ELSE converted

\* extract_claims: whatever the try raised, the except clause returns []
extract_claims(response) ==
    LET converted == convert_claims(response)
    IN  IF converted.raised THEN Ok(<<>>) ELSE converted

\* the responses of the model that a run is checked with
ClaimLists == UNION {[1..n -> ClaimValues] : n \in 0..MaxClaims}
Wrappings ==
    { <<FALSE, FALSE, FALSE>>, <<TRUE, FALSE, FALSE>>,
      <<FALSE, TRUE, TRUE>>, <<TRUE, TRUE, FALSE>> }
Sentences ==
    << Sentence("Fleet reroutes via Cape of Good Hope", 35,
                {"fleet", "route"}),
       Sentence("Suez down", 9, {"suez"}) >>
Bodies ==
    {JsonArray([n \in 1..Len(l) |-> ObjectOf(l[n])]) : l \in ClaimLists}
    \cup {JsonSingle(ObjectOf(c)) : c \in ClaimValues}
    \cup { JsonSingle(JsonObject(NoTextKey, NoTypeKey, None, None, None)),
           JsonArray(<<JsonString>>), JsonScalar, Prose(Sentences),
           Prose(<<>>) }
Contents ==
    {Content(w[1], w[2], w[3], b) : w \in Wrappings, b \in Bodies}
ExtractionCompletions ==
    {Raise(CompletionError, NoContent)} \cup {Ok(t) : t \in Contents}

\* -------------------------------------------------- ValidationQueryGenerator
\* SQL text is a tuple of pieces: the literal pieces of the f-strings, and the
\* characters of the descriptors placed between them
NoQuery ==
    [template |-> "", tables |-> {}, relation |-> "", co2nm |-> FALSE,
     having |-> 0, limit |-> 0,
     vessel_filter |-> <<>>, route_filter |-> <<>>, period_filter |-> <<>>]

\* str.strip()
RECURSIVE LStrip(_)
LStrip(s) == IF Len(s) > 0 /\ Head(s) = " " THEN LStrip(Tail(s)) ELSE s
RECURSIVE RStrip(_)
RStrip(s) ==
    IF Len(s) > 0 /\ s[Len(s)] = " " THEN RStrip(SubSeq(s, 1, Len(s) - 1))
    ELSE s
Strip(s) == LStrip(RStrip(s))

\* positions where the separator starts in s
Occurrences(s, sep) ==
    {k \in 1..(Len(s) - Len(sep) + 1) : SubSeq(s, k, k + Len(sep) - 1) = sep}
Contains(s, sep) == Occurrences(s, sep) # {}

\* s.split(sep): the parts between non-overlapping occurrences, left to right
RECURSIVE Split(_, _)
Split(s, sep) ==
    IF ~Contains(s, sep) THEN <<s>>
    ELSE LET k == CHOOSE m \in Occurrences(s, sep) :
                     \A n \in Occurrences(s, sep) : m <= n
         IN  <<SubSeq(s, 1, k - 1)>>
             \o Split(SubSeq(s, k + Len(sep), Len(s)), sep)

\* s.replace(sep, '')
RECURSIVE Join(_)
Join(parts) == IF Len(parts) = 0 THEN <<>> ELSE Head(parts) \o Join(Tail(parts))
Remove(s, sep) == Join(Split(s, sep))

LowerLetters ==
    <<"a", "b", "c", "d", "e", "f", "g", "h", "i", "j", "k", "l", "m", "n",
      "o", "p", "q", "r", "s", "t", "u", "v", "w", "x", "y", "z">>
UpperLetters ==
    <<"A", "B", "C", "D", "E", "F", "G", "H", "I", "J", "K", "L", "M", "N",
      "O", "P", "Q", "R", "S", "T", "U", "V", "W", "X", "Y", "Z">>

\* str.upper()
Upper(s) ==
    [k \in 1..Len(s) |->
        IF \E n \in 1..Len(LowerLetters) : LowerLetters[n] = s[k]
        THEN UpperLetters[CHOOSE n \in 1..Len(LowerLetters) :
                              LowerLetters[n] = s[k]]
        ELSE s[k]]

build_vessel_filter_any_digits(vessel_info) ==
    IF ~Truthy(vessel_info) THEN Ok(<<>>)
    ELSE IF vessel_info.t # "str" THEN Raise(AttributeError, <<>>)
    ELSE IF IsDigit(vessel_info.s)
         THEN Ok(<<"AND e.imo = ">> \o vessel_info.s)
    ELSE IF \E k \in 1..Len(vessel_info.s) : vessel_info.s[k] # " "
         THEN Ok(<<"AND v.name LIKE '%%">> \o vessel_info.s \o <<"%%'">>)
    ELSE Ok(<<>>)

\* _build_vessel_filter
build_vessel_filter(vessel_info) ==
    IF ~Truthy(vessel_info) THEN Ok(<<>>)
    ELSE IF vessel_info.t # "str" THEN Raise(AttributeError, <<>>)
    ELSE IF IsDigit(vessel_info.s) /\ Len(vessel_info.s) = 7
         THEN Ok(<<"AND e.imo = ">> \o vessel_info.s)
    ELSE IF \E k \in 1..Len(vessel_info.s) : vessel_info.s[k] # " "
         THEN Ok(<<"AND v.name LIKE '%%">> \o vessel_info.s \o <<"%%'">>)
    ELSE Ok(<<>>)

\* " OR ".join of one LIKE condition per port
RECURSIVE PortConditions(_)
PortConditions(ports) ==
    IF Len(ports) = 0 THEN <<>>
    ELSE <<"e.portname LIKE '%%", Head(ports), "%%'">>
         \o (IF Len(ports) > 1 THEN <<" OR ">> ELSE <<>>)
         \o PortConditions(Tail(ports))

\* _build_route_filter
build_route_filter(route_info) ==
    IF ~Truthy(route_info) THEN Ok(<<>>)
    ELSE IF route_info.t = "dict"
         THEN IF Len(route_info.s) > 0
              THEN Ok(<<" AND (">> \o PortConditions(route_info.s) \o <<")">>)
              ELSE Ok(<<>>)
    ELSE IF route_info.t # "str" THEN Raise(AttributeError, <<>>)
    ELSE LET route == Strip(route_info.s)
             ports == Split(route, <<"-", ">">>)
             regions == Split(route, <<"-">>)
         IN  IF Contains(route, <<"-", ">">>)
             THEN LET origin == Strip(ports[1])
                      destination == Strip(ports[2])
                  IN  Ok(<<"AND (e.portname LIKE '%%">> \o origin
                         \o <<"%%' OR e.portname LIKE '%%">> \o destination
                         \o <<"%%') AND (e.next_port LIKE '%%">> \o origin
                         \o <<"%%' OR e.next_port LIKE '%%">> \o destination
                         \o <<"%%')">>)
             ELSE IF Contains(route, <<"-">>)
                     /\ ~IsDigit(Remove(route, <<"-">>))
             THEN LET region1 == Strip(regions[1])
                      region2 == Strip(regions[2])
                  IN  Ok(<<"AND (p_start.zone LIKE '%%">> \o region1
                         \o <<"%%' OR p_start.zone LIKE '%%">> \o region2
                         \o <<"%%' OR p_end.zone LIKE '%%">> \o region1
                         \o <<"%%' OR p_end.zone LIKE '%%">> \o region2
                         \o <<"%%')">>)
             ELSE Ok(<<"AND (e.portname LIKE '%%">> \o route
                     \o <<"%%' OR e.next_port LIKE '%%">> \o route
                     \o <<"%%' OR p.zone LIKE '%%">> \o route \o <<"%%')">>)

\* a list of strings as an f-string formats it
RECURSIVE ItemsRepr(_)
ItemsRepr(items) ==
    IF Len(items) = 0 THEN <<>>
    ELSE <<"'", Head(items), "'">>
         \o (IF Len(items) > 1 THEN <<", ">> ELSE <<>>)
         \o ItemsRepr(Tail(items))
ListRepr(items) == <<"[">> \o ItemsRepr(items) \o <<"]">>

\* _build_route_filter_transit
build_route_filter_transit(route_info) ==
    IF ~Truthy(route_info) THEN Ok(<<>>)
    ELSE IF route_info.t = "dict"
         THEN IF Len(route_info.s) >= 2
              THEN Ok(<<"AND origin_port LIKE '%%", route_info.s[1],
                        "%%' AND destination_port LIKE '%%", route_info.s[2],
                        "%%'">>)
              ELSE Ok(<<>>)
    ELSE IF route_info.t = "int" THEN Raise("TypeError", <<>>)
    ELSE IF route_info.t = "list"
         THEN Ok(<<"AND (origin_port LIKE '%%">> \o ListRepr(route_info.s)
                 \o <<"%%' OR destination_port LIKE '%%">>
                 \o ListRepr(route_info.s) \o <<"%%')">>)
    ELSE LET ports == Split(route_info.s, <<"-", ">">>)
         IN  IF Contains(route_info.s, <<"-", ">">>)
             THEN Ok(<<"AND origin_port LIKE '%%">> \o Strip(ports[1])
                     \o <<"%%' AND destination_port LIKE '%%">>
                     \o Strip(ports[2]) \o <<"%%'">>)
             ELSE Ok(<<"AND (origin_port LIKE '%%">> \o route_info.s
                     \o <<"%%' OR destination_port LIKE '%%">> \o route_info.s
                     \o <<"%%')">>)

build_period_filter_case_sensitive(period_info, default_quarter) ==
    LET target_period == IF Truthy(period_info) THEN period_info
                         ELSE default_quarter
    IN  IF ~Truthy(target_period) THEN Ok(<<>>)
        ELSE IF target_period.t # "str" THEN Raise(AttributeError, <<>>)
        ELSE IF Contains(target_period.s, <<"Q">>)
             THEN Ok(<<"AND CONCAT(YEAR(e.start), 'Q', QUARTER(e.start)) = '">>
                     \o target_period.s \o <<"'">>)
        ELSE IF Len(target_period.s) = 4 /\ IsDigit(target_period.s)
             THEN Ok(<<"AND YEAR(e.start) = ">> \o target_period.s)
        ELSE Ok(<<"AND e.start >= '">> \o target_period.s \o <<"'">>)

\* _build_period_filter
build_period_filter(period_info, default_quarter) ==
    LET target_period == IF Truthy(period_info) THEN period_info
                         ELSE default_quarter
    IN  IF ~Truthy(target_period) THEN Ok(<<>>)
        ELSE IF target_period.t # "str" THEN Raise(AttributeError, <<>>)
        ELSE IF Contains(Upper(target_period.s), <<"Q">>)
             THEN Ok(<<"AND CONCAT(YEAR(e.start), 'Q', QUARTER(e.start)) = '">>
                     \o Upper(target_period.s) \o <<"'">>)
        ELSE IF Len(target_period.s) = 4 /\ IsDigit(target_period.s)
             THEN Ok(<<"AND YEAR(e.start) = ">> \o target_period.s)
        ELSE Ok(<<"AND e.start >= '">> \o target_period.s \o <<"'">>)

\* str.replace('e.', 'e1.') on a filter fragment
ReplacePiece(piece) ==
    CASE piece = "AND e.imo = " -> "AND e1.imo = "
      [] piece = "AND CONCAT(YEAR(e.start), 'Q', QUARTER(e.start)) = '" ->
             "AND CONCAT(YEAR(e1.start), 'Q', QUARTER(e1.start)) = '"
      [] piece = "AND YEAR(e.start) = " -> "AND YEAR(e1.start) = "
      [] piece = "AND e.start >= '" -> "AND e1.start >= '"
      [] OTHER -> piece

RECURSIVE Replace_e(_)
Replace_e(fragment) ==
    IF Len(fragment) = 0 THEN <<>>
    ELSE IF Len(fragment) >= 2 /\ fragment[1] = "e" /\ fragment[2] = "."
         THEN <<"e", "1", ".">> \o Replace_e(Tail(Tail(fragment)))
         ELSE <<ReplacePiece(Head(fragment))>> \o Replace_e(Tail(fragment))

QueryTemplates ==
    {"fuel_consumption", "transit_time", "route_pattern", "port_frequency",
     "vessel_movement"}

\* the fixed text of each template: the table aliases of its FROM clause, the
\* derived relation it builds, whether it selects and groups by m.co2nm itself
\* (requiring it to be positive), and its HAVING and LIMIT numbers
QueryText(template) ==
    CASE template = "fuel_consumption" ->
             [tables |-> {"e", "pt", "v", "m", "p_start", "p_end"},
              relation |-> "", co2nm |-> TRUE, having |-> 2, limit |-> 50]
      [] template = "transit_time" ->
             [tables |-> {"e1", "e2", "v", "pt"},
              relation |-> "transit_calculations", co2nm |-> FALSE,
              having |-> 2, limit |-> 30]
      [] template = "route_pattern" ->
             [tables |-> {"e", "pt", "v", "m", "p"},
              relation |-> "", co2nm |-> FALSE, having |-> 3, limit |-> 25]
      [] template = "port_frequency" ->
             [tables |-> {"e", "pt", "p"},
              relation |-> "", co2nm |-> FALSE, having |-> 5, limit |-> 20]
      [] template = "vessel_movement" ->
             [tables |-> {"e", "pt", "v", "m", "p"},
              relation |-> "", co2nm |-> FALSE, having |-> 0, limit |-> 100]

Query(template, vessel_filter, route_filter, period_filter) ==
    [template |-> template, tables |-> QueryText(template).tables,
     relation |-> QueryText(template).relation,
     co2nm |-> QueryText(template).co2nm,
     having |-> QueryText(template).having,
     limit |-> QueryText(template).limit,
     vessel_filter |-> vessel_filter, route_filter |-> route_filter,
     period_filter |-> period_filter]

\* the first of the calls that raises, in call order
FirstRaised(calls) ==
    IF \E k \in 1..Len(calls) : calls[k].raised
    THEN calls[CHOOSE k \in 1..Len(calls) :
                   /\ calls[k].raised
                   /\ \A n \in 1..(k - 1) : ~calls[n].raised]
    ELSE Ok(<<>>)

\* the template methods: the filters each one builds and the ones it injects
fill_template(template, claim, quarter) ==
    LET vessel_filter == build_vessel_filter(claim.vessel)
        route_filter == build_route_filter(claim.route)
        period_filter == build_period_filter(claim.period, quarter)
        transit_filter == build_route_filter_transit(claim.route)
        calls ==
            CASE template = "route_pattern" -> <<vessel_filter, period_filter>>
              [] template = "transit_time" ->
                     <<vessel_filter, route_filter, period_filter,
                       transit_filter>>
              [] OTHER -> <<vessel_filter, route_filter, period_filter>>
        failure == FirstRaised(calls)
    IN  IF failure.raised THEN Raise(failure.error, NoQuery)
        ELSE CASE template = "route_pattern" ->
                      Ok(Query(template, vessel_filter.value, <<>>,
                               period_filter.value))
               [] template = "transit_time" ->
                      Ok(Query(template, Replace_e(vessel_filter.value),
                               transit_filter.value,
                               Replace_e(period_filter.value)))
               [] OTHER ->
                      Ok(Query(template, vessel_filter.value,
                               route_filter.value, period_filter.value))

\* generate_validation_query: the lookup in the dispatch table (a list is
\* unhashable) and the call of the template method
generate_validation_query(claim, quarter) ==
    IF claim.claim_type.t = "list" THEN Raise("TypeError", NoQuery)
    ELSE fill_template(IF claim.claim_type.t = "str"
                          /\ claim.claim_type.name \in QueryTemplates
                       THEN claim.claim_type.name ELSE "vessel_movement",
                       claim, quarter)

\* ---------------------------------------------------------- ValidationAnalyzer
\* a completion response, by the labelled fields the patterns look for
AbsentStr == [present |-> FALSE, value |-> ""]
AbsentChars == [present |-> FALSE, value |-> <<>>]
FieldOf(v) == [present |-> TRUE, value |-> v]

SupportFields == {AbsentStr, FieldOf("Yes"), FieldOf("PARTIALLY"), FieldOf("No")}

ConfidenceFields ==
    { AbsentChars,
      FieldOf(<<"0", ".", "2">>),
      FieldOf(<<"0", ".", "8">>),
      FieldOf(<<"8", "5">>),
      FieldOf(<<"0", ".", "8", ".">>),
      FieldOf(<<"h", "i", "g", "h">>) }

LimitationsFields == {AbsentStr, FieldOf("data gaps")}

Responses ==
    [support : SupportFields, confidence : ConfidenceFields,
     limitations : LimitationsFields]

NoResponse ==
    [support |-> AbsentStr, confidence |-> AbsentChars, limitations |-> AbsentStr]

\* _format_results_for_analysis, for n rows: the text for no rows, else the
\* number of "Record k" lines and the count of the "... and N more" note
format_results_for_analysis(n) ==
    IF n = 0
    THEN [text |-> "No matching data found", records |-> 0, more |-> 0]
    ELSE [text |-> "", records |-> Min(n, 10),
          more |-> IF n > 10 THEN n - 10 ELSE 0]

\* length of the longest prefix of s matched by [0-9.]+
RECURSIVE NumPrefixLen(_)
NumPrefixLen(s) ==
    IF Len(s) = 0 \/ Head(s) \notin Digits \cup {"."} THEN 0
    ELSE 1 + NumPrefixLen(Tail(s))

parse_analysis_response(response_text) ==
    [support |-> response_text.support,
     confidence |->
        IF response_text.confidence.present
           /\ NumPrefixLen(response_text.confidence.value) > 0
        THEN FieldOf(SubSeq(response_text.confidence.value, 1,
                            NumPrefixLen(response_text.confidence.value)))
        ELSE AbsentChars,
     limitations |-> response_text.limitations]

\* float() of a string of digits and dots, in hundredths (inputs carry at
\* most two decimals)
ParseFloat(s) ==
    LET dots == {k \in 1..Len(s) : s[k] = "."}
        p == IF dots = {} THEN Len(s) + 1 ELSE CHOOSE k \in dots : TRUE
        ip == SubSeq(s, 1, p - 1)
        fp == SubSeq(s, p + 1, Len(s))
    IN  IF Cardinality(dots) > 1 \/ Len(ip) + Len(fp) = 0 \/ Len(fp) > 2
        THEN Raise(ValueError, 0)
        ELSE Ok(100 * IntOf(ip)
                + (IF Len(fp) = 1 THEN 10 * IntOf(fp) ELSE IntOf(fp)))

Lower(s) ==
    CASE s = "Yes" -> "yes" [] s = "Partially" -> "partially"
      [] s = "PARTIALLY" -> "partially" [] s = "No" -> "no" [] OTHER -> s

ResponseText == "response"

AnalysisFailure_no_rows(e, n) ==
    [supports_claim |-> FALSE, confidence |-> 0,
     limitations |-> [prefix |-> "Analysis error: ", text |-> e],
     analysis_text |-> "", data_points |-> 0]

AnalysisFailure(e, n) ==
    [supports_claim |-> FALSE, confidence |-> 0,
     limitations |-> [prefix |-> "Analysis error: ", text |-> e],
     analysis_text |-> "", data_points |-> n]

\* completion: the outcome of llm.invoke; query_results: the number of rows
analyze_validation_results(completion, query_results) ==
    IF completion.raised THEN AnalysisFailure(completion.error, query_results)
    ELSE
      LET analysis == parse_analysis_response(completion.value)
          support == IF analysis.support.present
                     THEN analysis.support.value ELSE "No"
          confidence == IF analysis.confidence.present
                        THEN ParseFloat(analysis.confidence.value) ELSE Ok(0)
      IN  IF confidence.raised
          THEN AnalysisFailure(confidence.error, query_results)
          ELSE [supports_claim |-> Lower(support) \in {"yes", "partially"},
                confidence |-> confidence.value,
                limitations |->
                    [prefix |-> "",
                     text |-> IF analysis.limitations.present
                              THEN analysis.limitations.value ELSE ""],
                analysis_text |-> ResponseText,
                data_points |-> query_results]


\* -------------------------------------------------------- DualDatabaseValidator
VARIABLES
    pc,                  \* position in validate_research_finding
    claims,              \* the claims extracted for this run
    i,                   \* index of the claim being validated
    query,               \* _validate_single_claim: the generated query
    results,             \* _validate_single_claim: number of rows fetched
    completion,          \* analyze_validation_results: what llm.invoke did
    analysis,            \* _validate_single_claim: the analyzer's verdict
    validation_results,  \* the per-claim results collected so far
    validation_claims,   \* ETSO table validation_claims (rows inserted)
    overall_confidence,  \* ETSO research_metadata.overall_confidence
    returned,            \* what validate_research_finding returned
    log                  \* per claim: which collaborators were called, and
                         \* what they answered

vars == <<pc, claims, i, query, results, completion, analysis, validation_results,
          validation_claims, overall_confidence, returned, log>>

research_metadata_id == 1

RowCounts == {0, 5, MaxRows}

NoCompletion == Ok(NoResponse)
NoAnalysis == AnalysisFailure("", 0)
Null == [set |-> FALSE, value |-> Zero]
Stored(v) == [set |-> TRUE, value |-> v]

NoLog ==
    [generated |-> "no", executed |-> "no", rows |-> 0, analyzed |-> FALSE,
     results_text |-> format_results_for_analysis(0),
     completion |-> "no", stored |-> "no"]

NotReturned ==
    [kind |-> "none", overall_confidence |-> Zero, validation_results |-> <<>>,
     error |-> "", total_claims |-> 0, supported_claims |-> 0]

\* min(data_points * 0.1 + 1.0, 3.0), in tenths
DataWeight(result) == Min(result.analysis.data_points + 10, 30)

SupportWeight_inverted(result) == IF result.supports_claim THEN 10 ELSE 15

\* 1.5 if supports_claim else 1.0, in tenths
SupportWeight(result) == IF result.supports_claim THEN 15 ELSE 10

\* the weight of one validated result, in hundredths
FinalWeight(result) == DataWeight(result) * SupportWeight(result)

\* the loop of _calculate_overall_confidence: the two running sums
RECURSIVE WeightedSums(_)
WeightedSums(rs) ==
    IF Len(rs) = 0 THEN [weighted_confidence |-> 0, total_weight |-> 0]
    ELSE LET before == WeightedSums(SubSeq(rs, 1, Len(rs) - 1))
             result == rs[Len(rs)]
         IN  IF result.status = "validated"
             THEN [weighted_confidence |->
                       before.weighted_confidence
                           + result.confidence * FinalWeight(result),
                   total_weight |-> before.total_weight + FinalWeight(result)]
             ELSE before

calculate_overall_confidence_neutral(rs) ==
    IF Len(rs) = 0 THEN Zero
    ELSE LET s == WeightedSums(rs)
         IN  IF s.total_weight > 0
             THEN IF s.weighted_confidence >= 100 * s.total_weight
                  THEN One
                  ELSE Frac(s.weighted_confidence, 100 * s.total_weight)
             ELSE Frac(1, 2)

calculate_overall_confidence_unclamped(rs) ==
    IF Len(rs) = 0 THEN Zero
    ELSE LET s == WeightedSums(rs)
         IN  IF s.total_weight > 0
             THEN Frac(s.weighted_confidence, 100 * s.total_weight)
             ELSE Zero

\* _calculate_overall_confidence
calculate_overall_confidence(rs) ==
    IF Len(rs) = 0 THEN Zero
    ELSE LET s == WeightedSums(rs)
         IN  IF s.total_weight > 0
             THEN IF s.weighted_confidence >= 100 * s.total_weight
                  THEN One
                  ELSE Frac(s.weighted_confidence, 100 * s.total_weight)
             ELSE Zero

ValidatedResult(claim, q, n, a) ==
    [claim |-> claim, query |-> q, data_results |-> Min(n, 5), analysis |-> a,
     confidence |-> a.confidence, supports_claim |-> a.supports_claim,
     status |-> "validated"]

FailedResult_default(claim, e) ==
    [claim |-> claim, error |-> e, confidence |-> 50, supports_claim |-> FALSE,
     status |-> "failed"]

FailedResult(claim, e) ==
    [claim |-> claim, error |-> e, confidence |-> 0, supports_claim |-> FALSE,
     status |-> "failed"]

ClaimData(claim, q, a) ==
    [research_metadata_id |-> research_metadata_id,
     claim_text |-> claim.claim_text, claim_type |-> claim.claim_type,
     vessel_filter |-> IF Truthy(claim.vessel) THEN claim.vessel.s ELSE <<>>,
     route_filter |-> IF Truthy(claim.route) THEN claim.route.s ELSE <<>>,
     period_filter |-> IF Truthy(claim.period) THEN claim.period.s ELSE <<>>,
     validation_query |-> q, confidence_score |-> a.confidence,
     supports_claim |-> a.supports_claim,
     data_points_found |-> a.data_points, analysis_text |-> a.analysis_text]

SupportedClaims(rs) ==
    Cardinality({k \in 1..Len(rs) : rs[k].supports_claim})

\* the theme's stored confidence before the run: never written, or the value
\* an earlier run left
PriorConfidence == {Null, Stored(Frac(4, 5))}

Init ==
    /\ pc = "start"
    /\ claims = <<>>
    /\ i = 0
    /\ query = NoQuery
    /\ results = 0
    /\ completion = NoCompletion
    /\ analysis = NoAnalysis
    /\ validation_results = <<>>
    /\ validation_claims = <<>>
    /\ overall_confidence \in PriorConfidence
    /\ returned = NotReturned
    /\ log = <<>>

\* validate_research_finding, step 1
ExtractClaims ==
    /\ pc = "start"
    /\ \E c \in ExtractionCompletions :
         LET extracted == extract_claims(c)
             cs == extracted.value
         IN  /\ completion' = c
             /\ claims' = cs
             /\ log' = [k \in 1..Len(cs) |-> NoLog]
             /\ CASE extracted.raised ->
                       /\ pc' = "done"
                       /\ i' = 0
                       /\ returned' = [NotReturned EXCEPT
                                          !.kind = "error",
                                          !.error = extracted.error]
                  [] ~extracted.raised /\ Len(cs) = 0 ->
                       /\ pc' = "done"
                       /\ i' = 0
                       /\ returned' = [NotReturned EXCEPT !.kind = "no_claims"]
                  [] OTHER ->
                       /\ pc' = "generate"
                       /\ i' = 1
                       /\ returned' = returned
    /\ UNCHANGED <<query, results, analysis, validation_results,
                   validation_claims, overall_confidence>>

Append_result_break(result) ==
    /\ validation_results' = Append(validation_results, result)
    /\ query' = NoQuery
    /\ results' = 0
    /\ completion' = NoCompletion
    /\ analysis' = NoAnalysis
    /\ IF i < Len(claims) /\ result.status # "failed"
       THEN i' = i + 1 /\ pc' = "generate"
       ELSE i' = i /\ pc' = "aggregate"

\* the loop of step 2: the result of claim i is appended, the next claim (or
\* step 3) follows
Append_result(result) ==
    /\ validation_results' = Append(validation_results, result)
    /\ query' = NoQuery
    /\ results' = 0
    /\ completion' = NoCompletion
    /\ analysis' = NoAnalysis
    /\ IF i < Len(claims)
       THEN i' = i + 1 /\ pc' = "generate"
       ELSE i' = i /\ pc' = "aggregate"

\* _validate_single_claim: generate the query
GenerateQuery ==
    /\ pc = "generate"
    /\ LET quarter == IF Truthy(claims[i].period) THEN claims[i].period
                      ELSE Str(Quarter2025Q1)
           q == generate_validation_query(claims[i], quarter)
       IN  /\ log' = [log EXCEPT ![i].generated =
                                     IF q.raised THEN "raised" ELSE "returned"]
           /\ IF q.raised
              THEN Append_result(FailedResult(claims[i], q.error))
              ELSE /\ query' = q.value
                   /\ pc' = "execute"
                   /\ UNCHANGED <<i, results, completion, analysis,
                                  validation_results>>
    /\ UNCHANGED <<claims, validation_claims, overall_confidence, returned>>

ExecuteQuery_skip_empty ==
    /\ pc = "execute"
    /\ \/ /\ log' = [log EXCEPT ![i].executed = "raised"]
          /\ Append_result(FailedResult(claims[i], TrafficError))
       \/ /\ log' = [log EXCEPT ![i].executed = "returned", ![i].rows = 0]
          /\ Append_result(FailedResult(claims[i], "No matching data found"))
       \/ \E n \in RowCounts \ {0} :
            /\ log' = [log EXCEPT ![i].executed = "returned", ![i].rows = n]
            /\ results' = n
            /\ pc' = "analyze"
            /\ UNCHANGED <<i, query, completion, analysis, validation_results>>
    /\ UNCHANGED <<claims, validation_claims, overall_confidence, returned>>

\* _validate_single_claim: execute_traffic_query raises or returns rows
ExecuteQuery ==
    /\ pc = "execute"
    /\ \/ /\ log' = [log EXCEPT ![i].executed = "raised"]
          /\ Append_result(FailedResult(claims[i], TrafficError))
       \/ \E n \in RowCounts :
            /\ log' = [log EXCEPT ![i].executed = "returned", ![i].rows = n]
            /\ results' = n
            /\ pc' = "analyze"
            /\ UNCHANGED <<i, query, completion, analysis, validation_results>>
    /\ UNCHANGED <<claims, validation_claims, overall_confidence, returned>>

\* _validate_single_claim: the analyzer is called; its completion call raises
\* or returns a response
AnalyzeResults ==
    /\ pc = "analyze"
    /\ \E c \in {Raise(CompletionError, NoResponse)}
                 \cup {Ok(r) : r \in Responses} :
         /\ completion' = c
         /\ analysis' = analyze_validation_results(c, results)
         /\ log' = [log EXCEPT ![i].analyzed = TRUE,
                               ![i].results_text =
                                   format_results_for_analysis(results),
                               ![i].completion =
                                   IF c.raised THEN "raised" ELSE "returned"]
    /\ pc' = "store"
    /\ UNCHANGED <<claims, i, query, results, validation_results,
                   validation_claims, overall_confidence, returned>>

StoreClaim_swallow ==
    /\ pc = "store"
    /\ \/ /\ validation_claims' =
                Append(validation_claims, ClaimData(claims[i], query, analysis))
          /\ log' = [log EXCEPT ![i].stored = "stored"]
          /\ Append_result(ValidatedResult(claims[i], query, results, analysis))
       \/ /\ validation_claims' = validation_claims
          /\ log' = [log EXCEPT ![i].stored = "raised"]
          /\ Append_result(ValidatedResult(claims[i], query, results, analysis))
    /\ UNCHANGED <<claims, overall_confidence, returned>>

StoreClaim_commit_then_raise ==
    /\ pc = "store"
    /\ \/ /\ validation_claims' =
                Append(validation_claims, ClaimData(claims[i], query, analysis))
          /\ log' = [log EXCEPT ![i].stored = "stored"]
          /\ Append_result(ValidatedResult(claims[i], query, results, analysis))
       \/ /\ validation_claims' =
                Append(validation_claims, ClaimData(claims[i], query, analysis))
          /\ log' = [log EXCEPT ![i].stored = "raised"]
          /\ Append_result(FailedResult(claims[i], EtsoError))
    /\ UNCHANGED <<claims, overall_confidence, returned>>

\* _validate_single_claim: store_validation_claim inserts the record, or raises
\* and the insert is rolled back
StoreClaim ==
    /\ pc = "store"
    /\ \/ /\ validation_claims' =
                Append(validation_claims, ClaimData(claims[i], query, analysis))
          /\ log' = [log EXCEPT ![i].stored = "stored"]
          /\ Append_result(ValidatedResult(claims[i], query, results, analysis))
       \/ /\ validation_claims' = validation_claims
          /\ log' = [log EXCEPT ![i].stored = "raised"]
          /\ Append_result(FailedResult(claims[i], EtsoError))
    /\ UNCHANGED <<claims, overall_confidence, returned>>

UpdateConfidence_rollback ==
    /\ pc = "aggregate"
    /\ LET overall == calculate_overall_confidence(validation_results)
       IN  \/ /\ overall_confidence' = Stored(overall)
              /\ validation_claims' = validation_claims
              /\ returned' =
                    [kind |-> "completed", overall_confidence |-> overall,
                     validation_results |-> validation_results, error |-> "",
                     total_claims |-> Len(claims),
                     supported_claims |-> SupportedClaims(validation_results)]
           \/ /\ overall_confidence' = overall_confidence
              /\ validation_claims' = <<>>
              /\ returned' = [NotReturned EXCEPT !.kind = "error",
                                                 !.error = EtsoError]
    /\ pc' = "done"
    /\ UNCHANGED <<claims, i, query, results, completion, analysis,
                   validation_results, log>>

UpdateConfidence_early ==
    /\ pc = "aggregate" \/ (pc = "generate" /\ i > 1)
    /\ LET overall == calculate_overall_confidence(validation_results)
       IN  \/ /\ overall_confidence' = Stored(overall)
              /\ returned' =
                    [kind |-> "completed", overall_confidence |-> overall,
                     validation_results |-> validation_results, error |-> "",
                     total_claims |-> Len(claims),
                     supported_claims |-> SupportedClaims(validation_results)]
           \/ /\ overall_confidence' = overall_confidence
              /\ returned' = [NotReturned EXCEPT !.kind = "error",
                                                 !.error = EtsoError]
    /\ pc' = "done"
    /\ UNCHANGED <<claims, i, query, results, completion, analysis,
                   validation_results, validation_claims, log>>

\* validate_research_finding, steps 3 and 4, and the return
UpdateConfidence ==
    /\ pc = "aggregate"
    /\ LET overall == calculate_overall_confidence(validation_results)
       IN  \/ /\ overall_confidence' = Stored(overall)
              /\ returned' =
                    [kind |-> "completed", overall_confidence |-> overall,
                     validation_results |-> validation_results, error |-> "",
                     total_claims |-> Len(claims),
                     supported_claims |-> SupportedClaims(validation_results)]
           \/ /\ overall_confidence' = overall_confidence
              /\ returned' = [NotReturned EXCEPT !.kind = "error",
                                                 !.error = EtsoError]
    /\ pc' = "done"
    /\ UNCHANGED <<claims, i, query, results, completion, analysis,
                   validation_results, validation_claims, log>>

Next ==
    \/ ExtractClaims
    \/ GenerateQuery
    \/ ExecuteQuery
    \/ AnalyzeResults
    \/ StoreClaim
    \/ UpdateConfidence

Spec == Init /\ [][Next]_vars

\* the claims query generation is checked with: every claim_type value and
\* every shape of vessel, route and period descriptor
TypeValues ==
    {TypeStr(t) : t \in QueryTemplates \cup {"general", "co2_emissions"}}
    \cup {TypeNone, TypeNum("3"), TypeList("vessel_movement")}
VesselValues ==
    { None, Str(<<>>), Str(<<" ">>), Str(MSC),
      Str(<<"9", "1", "2", "3", "4", "5", "6">>),
      Str(<<"9", "1", "2", "3", "4", "5">>),
      Num(<<"9", "1", "2", "3", "4", "5", "6">>), List(<<"MSC">>) }
RouteValues ==
    { None, Str(<<>>), Str(<<" ">>), Str(<<"S", "u", "e", "z">>),
      Str(<<"S", "G", " ", "-", ">", " ", "R", "T">>),
      Str(<<"A", "s", "i", "a", "-", "E", "U">>),
      Str(<<"2", "4", "-", "2", "5">>),
      Num(<<"7">>), List(<<"Suez">>), Dict(<<"Algeciras", "Tanger">>),
      Dict(<<>>) }
PeriodValues ==
    { None, Str(<<>>), Str(<<" ">>), Str(Quarter2025Q1),
      Str(<<"2", "0", "2", "5", "q", "1">>), Str(<<"2", "0", "2", "4">>),
      Str(<<"Q", "1", " ", "2", "0", "2", "5">>),
      Str(<<"2", "0", "2", "4", "-", "0", "1", "-", "0", "1">>),
      Num(<<"2", "0", "2", "4">>), List(<<"2025Q1">>) }
GeneratorClaims ==
    {ValidationClaim("Traffic shifted", t, v, r, p) :
        t \in TypeValues, v \in VesselValues, r \in RouteValues,
        p \in PeriodValues}

\* the run has extracted one claim and is about to generate its query
InitGenerate ==
    /\ pc = "generate"
    /\ \E c \in GeneratorClaims :
         /\ completion =
                Ok(Content(FALSE, FALSE, FALSE, JsonArray(<<ObjectOf(c)>>)))
         /\ claims = extract_claims(completion).value
    /\ i = 1
    /\ query = NoQuery
    /\ results = 0
    /\ analysis = NoAnalysis
    /\ validation_results = <<>>
    /\ validation_claims = <<>>
    /\ overall_confidence = Null
    /\ returned = NotReturned
    /\ log = <<NoLog>>

SpecGenerate == InitGenerate /\ [][GenerateQuery]_vars

TypeOK ==
    /\ pc \in {"start", "generate", "execute", "analyze", "store", "aggregate",
               "done"}
    /\ Len(validation_results) <= Len(claims)
    /\ Len(claims) <= MaxClaims


\* ==================================================================== claims
Done == 1..Len(validation_results)

StageRaised(k) ==
    \/ log[k].generated = "raised"
    \/ log[k].executed = "raised"
    \/ log[k].stored = "raised"

\* C1 (as stated): whenever any per-claim stage fails for a claim (query
\* generation, query execution, analysis by the language model, storing the
\* record), the result of that claim has status 'failed'.
C1_AnyStageFailureIsFailed ==
    \A k \in Done :
        (StageRaised(k) \/ log[k].completion = "raised")
            => validation_results[k].status = "failed"

\* C1 (amended): a result has status 'failed' exactly when query generation,
\* query execution or storing the record raised for that claim; a failure of
\* the analysis completion call is absorbed by the analyzer, and the claim,
\* once stored, is reported 'validated' with confidence 0.0 and
\* supports_claim false.
C1_FailedIffGenerationExecutionOrStoreRaised ==
    \A k \in Done :
        /\ validation_results[k].status \in {"failed", "validated"}
        /\ validation_results[k].status = "failed" <=> StageRaised(k)
        /\ (log[k].completion = "raised" /\ log[k].stored = "stored")
              => /\ validation_results[k].status = "validated"
                 /\ validation_results[k].confidence = 0
                 /\ ~validation_results[k].supports_claim

C1_Witness ==
    \E k, j \in Done :
        /\ log[k].completion = "raised"
        /\ validation_results[k].status = "validated"
        /\ log[j].executed = "raised"
        /\ validation_results[j].status = "failed"

\* C2: a run that extracted n >= 1 claims and whose confidence write succeeded
\* returns exactly n results, the k-th for the k-th extracted claim, and every
\* claim went through each stage its own outcomes allowed, whatever happened
\* to the other claims.
C2_OneResultPerClaimInOrder ==
    returned.kind = "completed" =>
        /\ Len(claims) >= 1
        /\ Len(returned.validation_results) = Len(claims)
        /\ returned.total_claims = Len(claims)
        /\ \A k \in 1..Len(claims) :
              /\ returned.validation_results[k].claim = claims[k]
              /\ log[k].generated # "no"
              /\ log[k].generated = "returned" => log[k].executed # "no"
              /\ log[k].executed = "returned"
                    => log[k].analyzed /\ log[k].stored # "no"

C2_Witness ==
    /\ returned.kind = "completed"
    /\ Len(returned.validation_results) = 2
    /\ returned.validation_results[1].status = "failed"
    /\ returned.validation_results[2].status = "validated"
    /\ log[2].stored = "stored"

\* C3: every per-claim result with status 'failed' has confidence 0.0 and
\* supports_claim false.
C3_FailedHasZeroConfidenceNoSupport ==
    \A k \in Done :
        validation_results[k].status = "failed"
            => /\ validation_results[k].confidence = 0
               /\ validation_results[k].supports_claim = FALSE

C3_Witness ==
    \E k \in Done :
        /\ validation_results[k].status = "failed"
        /\ log[k].stored = "raised"
        /\ analysis = NoAnalysis


\* the result list rs with the support flag of result k turned off
WithoutSupport(rs, k) ==
    [rs EXCEPT ![k].supports_claim = FALSE,
               ![k].analysis.supports_claim = FALSE]

SupportedValidated(rs) ==
    {k \in 1..Len(rs) : rs[k].status = "validated" /\ rs[k].supports_claim}

\* a confidence in hundredths against an exact fraction
ConfidenceGeq(c, x) == c * x.den >= 100 * x.num
ConfidenceLeq(c, x) == c * x.den <= 100 * x.num

\* C4 (as stated): for two result lists identical except that one validated
\* claim has supports_claim true in the first and false in the second, the
\* overall confidence of the first is at least that of the second.
C4_MonotonicInSupport ==
    \A k \in SupportedValidated(validation_results) :
        FracLeq(calculate_overall_confidence(WithoutSupport(validation_results, k)),
                calculate_overall_confidence(validation_results))

\* C4 (amended): for two such lists, the overall confidence of the first
\* (flag true) is at least that of the second (flag false) whenever the
\* confidence of the flipped claim is at least the overall confidence of the
\* second list, and at most that of the second whenever the confidence of the
\* flipped claim is at most it: support raises the weight of the claim, which
\* pulls the weighted average towards that claim's own confidence.
C4_SupportPullsTowardsOwnConfidence ==
    \A k \in SupportedValidated(validation_results) :
        LET first == calculate_overall_confidence(validation_results)
            second == calculate_overall_confidence(
                          WithoutSupport(validation_results, k))
            c == validation_results[k].confidence
        IN  /\ ConfidenceGeq(c, second) => FracLeq(second, first)
            /\ ConfidenceLeq(c, second) => FracLeq(first, second)

C4_Witness ==
    /\ returned.kind = "completed"
    /\ \E k \in SupportedValidated(validation_results) :
          /\ validation_results[k].confidence = 20
          /\ \E j \in Done : /\ validation_results[j].status = "validated"
                             /\ validation_results[j].confidence = 80
          /\ ~FracLeq(calculate_overall_confidence(
                          WithoutSupport(validation_results, k)),
                      returned.overall_confidence)

Validated(rs) == {k \in 1..Len(rs) : rs[k].status = "validated"}

WeightOf(r) ==
    Min(r.analysis.data_points + 10, 30) * (IF r.supports_claim THEN 15 ELSE 10)

RECURSIVE SumOfWeights(_, _)
SumOfWeights(S, rs) ==
    IF S = {} THEN 0
    ELSE LET k == CHOOSE x \in S : TRUE
         IN  WeightOf(rs[k]) + SumOfWeights(S \ {k}, rs)

RECURSIVE SumOfWeightedConfidences(_, _)
SumOfWeightedConfidences(S, rs) ==
    IF S = {} THEN 0
    ELSE LET k == CHOOSE x \in S : TRUE
         IN  rs[k].confidence * WeightOf(rs[k])
                 + SumOfWeightedConfidences(S \ {k}, rs)

\* C5 (as stated): the overall confidence is the weighted average of the
\* confidences of the validated results, each weighted by
\* min(data_points * 0.1 + 1.0, 3.0) times 1.5 if supported else 1.0; failed
\* results contribute nothing, so removing them does not change the value.
C5_WeightedAverageOfValidated ==
    returned.kind = "completed" =>
        LET rs == returned.validation_results
            V == Validated(rs)
        IN  /\ V # {} =>
                 returned.overall_confidence =
                     Frac(SumOfWeightedConfidences(V, rs),
                          100 * SumOfWeights(V, rs))
            /\ calculate_overall_confidence(
                   SelectSeq(rs, LAMBDA r : r.status = "validated"))
                 = returned.overall_confidence

\* C6: when no result has status 'validated' (empty list or every result
\* failed) the overall confidence is exactly 0.0, and it is what the run
\* returns and writes.
C6_NoValidatedGivesZero ==
    /\ calculate_overall_confidence(<<>>) = Zero
    /\ Validated(validation_results) = {} =>
          /\ calculate_overall_confidence(validation_results) = Zero
          /\ returned.kind = "completed" =>
                /\ returned.overall_confidence = Zero
                /\ overall_confidence = Stored(Zero)

C6_Witness ==
    /\ returned.kind = "completed"
    /\ Len(returned.validation_results) = 2
    /\ Validated(returned.validation_results) = {}
    /\ overall_confidence = Stored(Zero)


UnitInterval == 0..100

\* C7 (as stated): the confidence of every per-claim result the analyzer
\* produced, and every persisted confidence_score, lies in [0.0, 1.0].
C7_ConfidenceInUnitInterval ==
    /\ pc = "store" => analysis.confidence \in UnitInterval
    /\ \A k \in Done : validation_results[k].confidence \in UnitInterval
    /\ \A k \in 1..Len(validation_claims) :
          validation_claims[k].confidence_score \in UnitInterval

\* the SUPPORT values that read 'Yes' or 'Partially' when case is ignored
SupportingValues ==
    {"Yes", "YES", "yes", "Partially", "PARTIALLY", "partially"}

\* the CONFIDENCE field of a response is missing, or is no number
ConfidenceUnparseable(response_text) ==
    \/ ~response_text.confidence.present
    \/ NumPrefixLen(response_text.confidence.value) = 0
    \/ ParseFloat(SubSeq(response_text.confidence.value, 1,
                         NumPrefixLen(response_text.confidence.value))).raised

\* C8 (as stated): when the completion call returns text whose CONFIDENCE
\* field is missing or unparseable, the confidence is 0.5 and supports_claim
\* follows the SUPPORT field (No when missing), which differs from the
\* confidence 0.0 of the completion-call failure.
C8_UnparseableConfidenceIsNeutral ==
    (pc = "store" /\ ~completion.raised
       /\ ConfidenceUnparseable(completion.value))
        => /\ analysis.confidence = 50
           /\ analysis.supports_claim
                 = (/\ completion.value.support.present
                    /\ completion.value.support.value \in SupportingValues)
           /\ analysis.confidence
                 # AnalysisFailure(CompletionError, results).confidence

\* C9: when the completion call of the analyzer raises, the analyzer returns
\* (the claim goes on to be stored) supports_claim false, confidence 0.0,
\* limitations holding the error text, and data_points equal to the number of
\* rows the query returned.
C9_CompletionFailureIsAbsorbed ==
    /\ (pc = "store" /\ completion.raised) =>
          /\ analysis.supports_claim = FALSE
          /\ analysis.confidence = 0
          /\ analysis.limitations.prefix = "Analysis error: "
          /\ analysis.limitations.text = completion.error
          /\ log[i].executed = "returned"
          /\ analysis.data_points = log[i].rows
    /\ \A k \in Done :
          (log[k].completion = "raised" /\ log[k].stored = "stored") =>
              /\ validation_results[k].status = "validated"
              /\ validation_results[k].analysis.data_points = log[k].rows

C9_Witness ==
    /\ pc = "store"
    /\ completion.raised
    /\ log[i].rows = 5
    /\ analysis.data_points = 5

\* C10: the analyzer is invoked for a claim exactly when its query execution
\* returned a result set, empty or not: with 0 rows the analyzer is called and
\* the result has data_points 0 (data weight 1.0); when execution raises the
\* analyzer is never called and the result is failed, confidence 0.0,
\* supports_claim false, carrying the execution error.
C10_AnalyzerCalledIffExecutionReturned ==
    /\ \A k \in 1..Len(log) : log[k].analyzed => log[k].executed = "returned"
    /\ \A k \in Done :
          /\ log[k].analyzed <=> log[k].executed = "returned"
          /\ (log[k].executed = "returned" /\ log[k].rows = 0
                /\ validation_results[k].status = "validated")
                => /\ log[k].results_text.text = "No matching data found"
                   /\ validation_results[k].analysis.data_points = 0
                   /\ DataWeight(validation_results[k]) = 10
          /\ log[k].executed = "raised"
                => /\ validation_results[k].status = "failed"
                   /\ validation_results[k].confidence = 0
                   /\ validation_results[k].supports_claim = FALSE
                   /\ validation_results[k].error = TrafficError

C10_Witness ==
    \E k, j \in Done :
        /\ log[k].executed = "returned" /\ log[k].rows = 0 /\ log[k].analyzed
        /\ validation_results[k].status = "validated"
        /\ log[j].executed = "raised" /\ ~log[j].analyzed


\* C11 (as stated): after every run of validate_research_finding that returns
\* (with claims, with no claims extracted, or with an error), the theme's
\* stored overall confidence equals the overall_confidence the run returned.
C11_StoredConfidenceEqualsReturned ==
    pc = "done" => overall_confidence = Stored(returned.overall_confidence)

\* C12 (as stated): whenever the run returns a top-level failure (error
\* marker, overall_confidence 0.0, empty validation_results), no per-claim
\* record was persisted during the run.
C12_TopLevelFailurePersistsNothing ==
    (pc = "done" /\ returned.kind = "error")
        => /\ returned.overall_confidence = Zero
           /\ returned.validation_results = <<>>
           /\ validation_claims = <<>>

\* C13: once the record of a claim has been stored it stays stored, in its
\* place and unchanged, whatever the later claims and the final confidence
\* update do.
C13_StoredRecordsStay ==
    [][\A k \in 1..Len(validation_claims) :
          /\ Len(validation_claims') >= k
          /\ validation_claims'[k] = validation_claims[k]]_vars

C13_Witness ==
    /\ pc = "done"
    /\ Len(claims) = 2
    /\ log[1].stored = "stored"
    /\ log[2].stored = "raised"
    /\ returned.kind = "error"
    /\ Len(validation_claims) = 1
    /\ validation_claims[1].claim_text = claims[1].claim_text


\* the completion variable holds the response of the extraction call
Extracted ==
    \/ pc \in {"generate", "execute"} /\ i = 1
    \/ pc = "done" /\ returned.kind \in {"no_claims", "error"}
                   /\ validation_claims = <<>> /\ Len(claims) = 0

\* C14: extract_claims never raises, whatever the completion call did (call
\* error, non-JSON text, JSON of the wrong shape); and when it returns an
\* empty list the run returns overall_confidence 0.0, an empty
\* validation_results list and no error marker, without generating or
\* executing any query.
C14_ExtractionNeverRaisesEmptyIsNoValidation ==
    /\ pc = "start" => \A c \in ExtractionCompletions : ~extract_claims(c).raised
    /\ returned.kind = "error" => returned.error = EtsoError
    /\ (pc # "start" /\ Len(claims) = 0)
          => /\ pc = "done"
             /\ returned.kind = "no_claims"
             /\ returned.overall_confidence = Zero
             /\ returned.validation_results = <<>>
             /\ returned.error = ""
             /\ log = <<>>
             /\ query = NoQuery
             /\ validation_results = <<>>

C14_Witness ==
    /\ pc = "done"
    /\ completion = Ok(Content(FALSE, FALSE, FALSE, JsonArray(<<JsonString>>)))
    /\ claims = <<>>
    /\ returned.kind = "no_claims"

\* C15 (as stated): when the response is one JSON claim object, wrapped in
\* surrounding text or a code fence or not, extract_claims yields exactly one
\* claim carrying the object's claim_type, vessel and period; an object and
\* the one-element array containing it yield the same claim list.
C15_SingleObjectYieldsOneClaim ==
    /\ (Extracted /\ ~completion.raised
           /\ completion.value.body.j = "object"
           /\ completion.value.body.items[1].claim_type.present)
          => /\ Len(claims) = 1
             /\ claims[1].claim_type =
                    completion.value.body.items[1].claim_type.value
             /\ claims[1].vessel = completion.value.body.items[1].vessel
             /\ claims[1].period = completion.value.body.items[1].period
    /\ \A t \in Contents :
          t.body.j = "object"
            => extract_claims(Ok(t)) =
                  extract_claims(Ok([t EXCEPT !.body = JsonArray(t.body.items)]))


\* the claim whose query is generated, and the default quarter its run passes
Generated == pc # "generate" /\ Len(claims) = 1 /\ log[1].generated # "no"
DefaultQuarter(claim) ==
    IF Truthy(claim.period) THEN claim.period ELSE Str(Quarter2025Q1)

\* C16 (as stated): each of the five claim types is dispatched to its own
\* template (the fuel_consumption query references v_MRV with co2nm, the
\* transit_time query builds the self-joined transit_calculations relation),
\* and every other claim_type value, 'general' and null included, produces
\* the vessel_movement query without raising.
C16_DispatchByClaimType ==
    Generated =>
        LET type == claims[1].claim_type
        IN  IF type.t = "str" /\ type.name \in QueryTemplates
            THEN pc = "execute" =>
                    /\ query.template = type.name
                    /\ type.name = "fuel_consumption"
                          => "m" \in query.tables /\ query.co2nm
                    /\ type.name = "transit_time"
                          => /\ query.relation = "transit_calculations"
                             /\ {"e1", "e2"} \subseteq query.tables
            ELSE /\ log[1].generated = "returned"
                 /\ pc = "execute"
                 /\ query.template = "vessel_movement"

\* C17 (as stated): for every vessel, route and period descriptor a claim can
\* carry (absent, empty, whitespace-only, ordinary string, number, list,
\* object) the filter builders and generate_validation_query return without
\* raising, and a fragment is empty only when its descriptor is empty or
\* absent.
C17_FiltersNeverRaise ==
    Generated =>
        LET claim == claims[1]
            vessel_filter == build_vessel_filter(claim.vessel)
            route_filter == build_route_filter(claim.route)
            period_filter ==
                build_period_filter(claim.period, DefaultQuarter(claim))
        IN  /\ ~vessel_filter.raised
            /\ ~route_filter.raised
            /\ ~period_filter.raised
            /\ claim.claim_type.t # "list" => log[1].generated = "returned"
            /\ vessel_filter.value = <<>>
                  => claim.vessel.t = "none" \/ claim.vessel.s = <<>>
            /\ route_filter.value = <<>>
                  => claim.route.t = "none" \/ claim.route.s = <<>>
            /\ period_filter.value = <<>>
                  => claim.period.t = "none" \/ claim.period.s = <<>>

SevenDigits(d) ==
    d.t = "str" /\ Len(d.s) = 7 /\ \A k \in 1..7 : d.s[k] \in Digits
Text(d) == d.t \in {"none", "str"}
Blank(d) == d.t = "none" \/ \A k \in 1..Len(d.s) : d.s[k] = " "
ImoEquality(d) == <<"AND e.imo = ">> \o d.s
NameContains(d) == <<"AND v.name LIKE '%%">> \o d.s \o <<"%%'">>

\* the vessel fragment of the generated query is the builder's
VesselFilterInjected ==
    (pc = "execute" /\ query.template # "transit_time")
        => query.vessel_filter = build_vessel_filter(claims[1].vessel).value

QuarterToken(s) ==
    /\ Len(s) = 6
    /\ \A k \in 1..4 : s[k] \in Digits
    /\ s[5] = "Q"
    /\ s[6] \in {"1", "2", "3", "4"}
FourDigits(s) == Len(s) = 4 /\ \A k \in 1..4 : s[k] \in Digits
HasQ(s) == \E k \in 1..Len(s) : s[k] \in {"q", "Q"}
QuarterEquality(s) ==
    <<"AND CONCAT(YEAR(e.start), 'Q', QUARTER(e.start)) = '">> \o s \o <<"'">>
YearEquality(s) == <<"AND YEAR(e.start) = ">> \o s
StartFrom(s) == <<"AND e.start >= '">> \o s \o <<"'">>

\* the period fragment of the generated query is the builder's
PeriodFilterInjected ==
    (pc = "execute" /\ query.template # "transit_time")
        => query.period_filter =
              build_period_filter(claims[1].period,
                                  DefaultQuarter(claims[1])).value

\* C19 (as stated): for the effective period (the claim's period, else the
\* default quarter), a quarter token YYYYQn yields the equality on
\* CONCAT(YEAR, 'Q', QUARTER) with that token, exactly 4 digits yield a year
\* equality, and every other string yields 'start >= descriptor'.
C19_PeriodFilterThreeCases ==
    (Generated /\ Text(claims[1].period)) =>
        LET effective == DefaultQuarter(claims[1]).s
            fragment == build_period_filter(claims[1].period,
                                            DefaultQuarter(claims[1]))
        IN  /\ ~fragment.raised
            /\ PeriodFilterInjected
            /\ CASE QuarterToken(effective) ->
                       fragment.value = QuarterEquality(effective)
                  [] FourDigits(effective) ->
                       fragment.value = YearEquality(effective)
                  [] OTHER -> fragment.value = StartFrom(effective)

\* C19 (amended): for the effective period (the claim's period, else the
\* default quarter), a string containing the letter Q in either case yields
\* the equality on CONCAT(YEAR, 'Q', QUARTER) with the upper-cased string;
\* otherwise exactly 4 digits yield a year equality; every other string
\* yields 'start >= descriptor'.  The fragment is never empty.
C19_PeriodFilterByLetterQ ==
    (Generated /\ Text(claims[1].period)) =>
        LET effective == DefaultQuarter(claims[1]).s
            fragment == build_period_filter(claims[1].period,
                                            DefaultQuarter(claims[1]))
        IN  /\ ~fragment.raised
            /\ PeriodFilterInjected
            /\ fragment.value # <<>>
            /\ ~Truthy(claims[1].period) => effective = Quarter2025Q1
            /\ CASE HasQ(effective) ->
                       /\ fragment.value = QuarterEquality(Upper(effective))
                       /\ QuarterToken(effective)
                             => fragment.value = QuarterEquality(effective)
                  [] ~HasQ(effective) /\ FourDigits(effective) ->
                       fragment.value = YearEquality(effective)
                  [] OTHER -> fragment.value = StartFrom(effective)

C19_Witness ==
    /\ pc = "execute"
    /\ claims[1].period = Str(<<"Q", "1", " ", "2", "0", "2", "5">>)
    /\ query.template = "vessel_movement"
    /\ query.period_filter =
          QuarterEquality(<<"Q", "1", " ", "2", "0", "2", "5">>)


\* C20 (as stated): after the analysis of a claim, supports_claim is true
\* exactly when the SUPPORT field parsed from the response is 'Yes' or
\* 'Partially' in any case; it is false for every other value, for a missing
\* SUPPORT field, and when there is no response to parse.
C20_SupportsIffYesOrPartially ==
    pc = "store" =>
        (analysis.supports_claim
           <=> /\ ~completion.raised
               /\ parse_analysis_response(completion.value).support.present
               /\ parse_analysis_response(completion.value).support.value
                      \in SupportingValues)

\* C21: the overall confidence a run computes, returns and writes to the
\* theme's stored confidence lies in [0.0, 1.0], whatever the per-claim
\* results are.
C21_OverallConfidenceInUnitInterval ==
    /\ FracLeq(Zero, returned.overall_confidence)
    /\ FracLeq(returned.overall_confidence, One)
    /\ pc = "aggregate" =>
          /\ FracLeq(Zero, calculate_overall_confidence(validation_results))
          /\ FracLeq(calculate_overall_confidence(validation_results), One)
    /\ returned.kind = "completed" =>
          /\ overall_confidence = Stored(returned.overall_confidence)
          /\ FracLeq(Zero, overall_confidence.value)
          /\ FracLeq(overall_confidence.value, One)

C21_Witness ==
    /\ returned.kind = "completed"
    /\ \E k \in 1..Len(returned.validation_results) :
          /\ returned.validation_results[k].status = "validated"
          /\ returned.validation_results[k].confidence > 100
    /\ returned.overall_confidence = One
    /\ overall_confidence = Stored(One)

\* claim k has reached a terminal state: its result is in the list
Terminal(k) ==
    /\ k \in Done
    /\ validation_results[k].status \in {"validated", "failed"}

\* C22: claims are processed one after another in extraction order: while
\* claim i is being generated, executed, analyzed or stored every earlier
\* claim is terminal and no later claim has been touched; and the overall
\* confidence is computed and written only after every claim is terminal.
C22_StrictlySequential ==
    /\ pc \in {"generate", "execute", "analyze", "store"} =>
          /\ i = Len(validation_results) + 1
          /\ \A k \in 1..(i - 1) : Terminal(k)
          /\ \A k \in (i + 1)..Len(claims) : log[k] = NoLog
    /\ \A k \in 1..Len(claims) :
          log[k].generated # "no" => \A j \in 1..(k - 1) : Terminal(j)
    /\ (pc = "aggregate" \/ returned.kind \in {"completed", "error"}) =>
          \A k \in 1..Len(claims) : Terminal(k)
    /\ overall_confidence \notin PriorConfidence =>
          \A k \in 1..Len(claims) : Terminal(k)

C22_Witness ==
    /\ pc = "generate"
    /\ i = 2
    /\ Terminal(1)
    /\ log[1].stored = "stored"
    /\ log[2] = NoLog

\* a descriptor that holds something: text with a non-blank character, or a
\* ports object with ports
Filled(d) ==
    \/ d.t = "str" /\ ~Blank(d)
    \/ d.t = "dict" /\ Len(d.s) >= 2

\* C23 (as stated): every one of the five templates injects the vessel, route
\* and period fragments: the query generated for a claim with a non-empty
\* vessel, route and period constrains all three.
C23_AllThreeFiltersInjected ==
    (pc = "execute" /\ Filled(claims[1].vessel) /\ Filled(claims[1].route)
       /\ Filled(claims[1].period))
        => /\ query.vessel_filter # <<>>
           /\ query.route_filter # <<>>
           /\ query.period_filter # <<>>

\* reading a filter fragment back: the pieces of SQL text the builders write
\* around a LIKE pattern, the column each one compares, and the ones that
\* open a new conjunct
ComparingPieces ==
    { "AND v.name LIKE '%%",
      "AND (e.portname LIKE '%%", "%%' OR e.portname LIKE '%%",
      "e.portname LIKE '%%",
      "%%') AND (e.next_port LIKE '%%", "%%' OR e.next_port LIKE '%%",
      "%%' OR p.zone LIKE '%%",
      "AND (p_start.zone LIKE '%%", "%%' OR p_start.zone LIKE '%%",
      "%%' OR p_end.zone LIKE '%%",
      "AND origin_port LIKE '%%", "AND (origin_port LIKE '%%",
      "%%' AND destination_port LIKE '%%",
      "%%' OR destination_port LIKE '%%" }
ClosingPieces == {"%%'", "%%')", " OR ", ")", " AND ("}
OpeningPieces ==
    { "AND v.name LIKE '%%", "AND (e.portname LIKE '%%", " AND (",
      "%%') AND (e.next_port LIKE '%%", "AND (p_start.zone LIKE '%%",
      "AND origin_port LIKE '%%", "AND (origin_port LIKE '%%",
      "%%' AND destination_port LIKE '%%" }

PieceColumn(piece) ==
    CASE piece = "AND v.name LIKE '%%" -> "v.name"
      [] piece \in {"AND (e.portname LIKE '%%", "%%' OR e.portname LIKE '%%",
                    "e.portname LIKE '%%"} -> "e.portname"
      [] piece \in {"%%') AND (e.next_port LIKE '%%",
                    "%%' OR e.next_port LIKE '%%"} -> "e.next_port"
      [] piece = "%%' OR p.zone LIKE '%%" -> "p.zone"
      [] piece \in {"AND (p_start.zone LIKE '%%",
                    "%%' OR p_start.zone LIKE '%%"} -> "p_start.zone"
      [] piece = "%%' OR p_end.zone LIKE '%%" -> "p_end.zone"
      [] piece \in {"AND origin_port LIKE '%%",
                    "AND (origin_port LIKE '%%"} -> "origin_port"
      [] piece \in {"%%' AND destination_port LIKE '%%",
                    "%%' OR destination_port LIKE '%%"} -> "destination_port"

\* the condition a fragment expresses: a conjunction (set) of disjunctions
\* (sets) of comparisons 'column LIKE %pattern%'
Conditions(fragment) ==
    LET comparing == {k \in 1..Len(fragment) : fragment[k] \in ComparingPieces}
        conjunct(k) ==
            Cardinality({j \in 1..k : fragment[j] \in OpeningPieces})
        pattern(k) ==
            LET stop == CHOOSE j \in (k + 1)..Len(fragment) :
                            /\ fragment[j] \in ComparingPieces \cup ClosingPieces
                            /\ \A n \in (k + 1)..(j - 1) :
                                  fragment[n] \notin
                                      ComparingPieces \cup ClosingPieces
            IN  SubSeq(fragment, k + 1, stop - 1)
    IN  { {[column |-> PieceColumn(fragment[k]), pattern |-> pattern(k)] :
              k \in {n \in comparing : conjunct(n) = c}} :
          c \in {conjunct(k) : k \in comparing} }

\* the transit relation exposes origin_port / destination_port in place of
\* portname / next_port
Renamed(column) ==
    CASE column = "e.portname" -> "origin_port"
      [] column = "e.next_port" -> "destination_port"
      [] OTHER -> column

\* the value of a condition on a row (LIKE '%p%' is 'contains p')
Holds(conditions, row) ==
    \A disjunction \in conditions :
        \E comparison \in disjunction :
            Contains(row[Renamed(comparison.column)], comparison.pattern)

\* the rows two conditions are compared on: every column holds one of the
\* patterns of either condition, or another value
RouteColumns ==
    {"origin_port", "destination_port", "p.zone", "p_start.zone", "p_end.zone"}
Rows(first, second) ==
    LET patterns ==
            {comparison.pattern :
                comparison \in UNION (first \cup second)}
    IN  [RouteColumns -> patterns \cup {<<"X">>}]

\* C24 (as stated): for every route descriptor the transit-time route filter
\* expresses the same condition as the general route filter once portname and
\* next_port are read as origin_port and destination_port.
C24_TransitFilterSameCondition ==
    (pc = "execute" /\ query.template = "transit_time") =>
        LET general == Conditions(build_route_filter(claims[1].route).value)
            transit == Conditions(query.route_filter)
        IN  \A row \in Rows(general, transit) :
                Holds(general, row) <=> Holds(transit, row)

\* the table aliases a filter fragment refers to (origin_port and
\* destination_port are columns of the derived relation, not of an alias)
PieceAliases(piece) ==
    CASE piece \in {"AND e.imo = ", "AND YEAR(e.start) = ", "AND e.start >= '",
                    "AND CONCAT(YEAR(e.start), 'Q', QUARTER(e.start)) = '"}
             -> {"e"}
      [] piece \in {"AND e1.imo = ", "AND YEAR(e1.start) = ",
                    "AND e1.start >= '",
                    "AND CONCAT(YEAR(e1.start), 'Q', QUARTER(e1.start)) = '"}
             -> {"e1"}
      [] piece \in ComparingPieces ->
             CASE PieceColumn(piece) = "v.name" -> {"v"}
               [] PieceColumn(piece) \in {"e.portname", "e.next_port"} -> {"e"}
               [] PieceColumn(piece) = "p.zone" -> {"p"}
               [] PieceColumn(piece) = "p_start.zone" -> {"p_start"}
               [] PieceColumn(piece) = "p_end.zone" -> {"p_end"}
               [] OTHER -> {}
      [] OTHER -> {}
Aliases(fragment) ==
    UNION {PieceAliases(fragment[k]) : k \in 1..Len(fragment)}

\* C26 (as stated): every table alias the injected filter fragments refer to
\* is bound by the FROM/JOIN clause of the template the claim type selects.
C26_FilterAliasesBound ==
    pc = "execute" =>
        /\ Aliases(query.vessel_filter) \subseteq query.tables
        /\ Aliases(query.route_filter) \subseteq query.tables
        /\ Aliases(query.period_filter) \subseteq query.tables

\* the claim types the extraction prompt tells the model to emit
PromptClaimTypes ==
    {"vessel_movement", "route_pattern", "port_frequency", "transit_time",
     "co2_emissions"}

\* C27 (as stated): every claim type of the extraction prompt is a key of the
\* dispatch table, so a claim typed as the prompt prescribes gets the template
\* of its own category; an emissions claim gets the emissions (v_MRV, co2nm)
\* template.
C27_PromptTypesAreDispatchKeys ==
    /\ PromptClaimTypes \subseteq QueryTemplates
    /\ (pc = "execute" /\ claims[1].claim_type.t = "str"
          /\ claims[1].claim_type.name \in PromptClaimTypes)
         => IF claims[1].claim_type.name = "co2_emissions"
            THEN query.template = "fuel_consumption" /\ query.co2nm
            ELSE query.template = claims[1].claim_type.name

\* the results of the run that have status 'validated'
ValidatedResults ==
    {k \in Done : validation_results[k].status = "validated"}

\* C28: the records stored during the run are exactly those of the claims
\* whose result is 'validated', in order: a record is stored only after the
\* claim's query executed and its analysis returned, a 'failed' result has no
\* record, and a completed run reports
\* supported_claims <= validated results <= total_claims.
C28_StoredRecordsAreValidatedResults ==
    /\ Len(validation_claims) = Cardinality(ValidatedResults)
    /\ \A k \in Done :
          /\ validation_results[k].status = "validated"
                <=> log[k].stored = "stored"
          /\ validation_results[k].status = "validated" =>
                LET n == Cardinality({j \in ValidatedResults : j <= k})
                IN  /\ validation_claims[n].claim_text = claims[k].claim_text
                    /\ validation_claims[n].validation_query
                          = validation_results[k].query
                    /\ validation_claims[n].confidence_score
                          = validation_results[k].confidence
    /\ \A k \in 1..Len(log) :
          log[k].stored # "no" =>
              log[k].executed = "returned" /\ log[k].analyzed
    /\ returned.kind = "completed" =>
          /\ returned.supported_claims
                <= Cardinality({k \in 1..Len(returned.validation_results) :
                       returned.validation_results[k].status = "validated"})
          /\ Cardinality({k \in 1..Len(returned.validation_results) :
                   returned.validation_results[k].status = "validated"})
                = Len(validation_claims)
          /\ Len(validation_claims) <= returned.total_claims

C28_Witness ==
    /\ returned.kind = "completed"
    /\ returned.total_claims = 2
    /\ Len(validation_claims) = 1
    /\ returned.supported_claims = 0
    /\ log[1].stored = "raised"
    /\ returned.validation_results[1].status = "failed"
    /\ returned.validation_results[2].status = "validated"

\* --------------------------------------------------------------- dashboard
\* The handlers of the dashboard that work on the stored records of one theme.
\* validation_claims is the table, overall_confidence the theme's stored
\* confidence; while run_bulk_validation runs, claims holds pending_claims (the
\* selected ids), i the position of its loop, results its counters and log the
\* attempts it made; returned is the response of the last handler. A record's
\* id is its position in the table.

\* SQL NULL in confidence_score and supports_claim
NULL == 0 - 1

\* how a Python bool is written into a numeric column
SqlBool(b) == IF b THEN 1 ELSE 0

\* the responses the analysis call of the dashboard is checked with
DashboardResponses ==
    [support : {FieldOf("Yes"), FieldOf("No")},
     confidence : {FieldOf(<<"0", ".", "0">>), FieldOf(<<"0", ".", "8">>)},
     limitations : {AbsentStr}]

DashboardRowCounts == {5}

\* what the collaborators of run_single_claim_validation do in one call: the
\* first statement that raises (none: all return), the rows the validation
\* query returns and the response of the analysis call
SingleOutcomes ==
    {[fails |-> s, rows |-> 0, response |-> NoResponse] :
        s \in {"select", "query", "write_back", "llm", "update"}}
    \cup {[fails |-> s, rows |-> n, response |-> r] :
            s \in {"theme_update", "none"}, n \in DashboardRowCounts,
            r \in DashboardResponses}

\* the WHERE clause of run_bulk_validation
Pending(row) ==
    \/ row.confidence_score = NULL
    \/ row.confidence_score = 0
    \/ row.supports_claim = NULL

\* SELECT id FROM validation_claims WHERE ...
PendingIds(table) ==
    SelectSeq([k \in 1..Len(table) |-> k], LAMBDA k : Pending(table[k]))

RECURSIVE SumScores(_)
SumScores(rows) ==
    IF Len(rows) = 0 THEN 0
    ELSE Head(rows).confidence_score + SumScores(Tail(rows))

\* SELECT AVG(confidence_score) ... WHERE confidence_score IS NOT NULL
AverageConfidence(table) ==
    LET scored == SelectSeq(table, LAMBDA row : row.confidence_score # NULL)
    IN  IF Len(scored) = 0 THEN Null
        ELSE Stored(Frac(SumScores(scored), 100 * Len(scored)))

\* run_single_claim_validation: the SUPPORT and CONFIDENCE fields of the
\* response (confidence in hundredths)
DashboardAnalysis(response) ==
    LET support_text == IF response.support.present
                        THEN Lower(response.support.value) ELSE "no"
        n == IF response.confidence.present
             THEN NumPrefixLen(response.confidence.value) ELSE 0
        parsed == ParseFloat(SubSeq(response.confidence.value, 1, n))
    IN  [support_text |-> support_text,
         supports_claim |->
             IF support_text \in {"yes", "partially"} THEN 1 ELSE 0,
         confidence |->
             IF n > 0 /\ ~parsed.raised
             THEN (IF parsed.value < 0 THEN 0 ELSE Min(100, parsed.value))
             ELSE 50]

QueryFailed == "Query execution failed"
ClaimNotFound == "Claim not found"

run_single_claim_validation_null_on_failure(table, stored, claim_id, o) ==
    LET failed(e) ==
            [validation_claims |-> table, overall_confidence |-> stored,
             success |-> FALSE, error |-> e]
        a == DashboardAnalysis(o.response)
        updated ==
            [table EXCEPT ![claim_id] =
                [@ EXCEPT !.confidence_score = a.confidence,
                          !.supports_claim = a.supports_claim,
                          !.data_points_found = o.rows,
                          !.analysis_text = "Support"]]
    IN  CASE o.fails = "select" -> failed(EtsoError)
          [] claim_id \notin 1..Len(table) -> failed(ClaimNotFound)
          [] o.fails = "query" ->
                [validation_claims |->
                    [table EXCEPT ![claim_id] =
                        [@ EXCEPT !.confidence_score = 50,
                                  !.supports_claim = 0,
                                  !.data_points_found = 0,
                                  !.analysis_text = QueryFailed]],
                 overall_confidence |-> stored,
                 success |-> FALSE, error |-> QueryFailed]
          [] o.fails = "write_back" -> failed(EtsoError)
          [] o.fails = "llm" -> failed(CompletionError)
          [] o.fails = "update" -> failed(EtsoError)
          [] o.fails = "theme_update" ->
                [validation_claims |-> updated, overall_confidence |-> stored,
                 success |-> FALSE, error |-> EtsoError]
          [] OTHER ->
                [validation_claims |-> updated,
                 overall_confidence |-> AverageConfidence(updated),
                 success |-> TRUE, error |-> ""]

\* run_single_claim_validation(claim_id) on the table and the theme's stored
\* confidence: the table and the confidence it leaves, and what it returns
run_single_claim_validation(table, stored, claim_id, o) ==
    LET failed(e) ==
            [validation_claims |-> table, overall_confidence |-> stored,
             success |-> FALSE, error |-> e]
        a == DashboardAnalysis(o.response)
        updated ==
            [table EXCEPT ![claim_id] =
                [@ EXCEPT !.confidence_score = a.confidence,
                          !.supports_claim = a.supports_claim,
                          !.data_points_found = o.rows,
                          !.analysis_text = "Support"]]
    IN  CASE o.fails = "select" -> failed(EtsoError)
          [] claim_id \notin 1..Len(table) -> failed(ClaimNotFound)
          [] o.fails = "query" ->
                [validation_claims |->
                    [table EXCEPT ![claim_id] =
                        [@ EXCEPT !.confidence_score = 0,
                                  !.supports_claim = 0,
                                  !.data_points_found = 0,
                                  !.analysis_text = QueryFailed]],
                 overall_confidence |-> stored,
                 success |-> FALSE, error |-> QueryFailed]
          [] o.fails = "write_back" -> failed(EtsoError)
          [] o.fails = "llm" -> failed(CompletionError)
          [] o.fails = "update" -> failed(EtsoError)
          [] o.fails = "theme_update" ->
                [validation_claims |-> updated, overall_confidence |-> stored,
                 success |-> FALSE, error |-> EtsoError]
          [] OTHER ->
                [validation_claims |-> updated,
                 overall_confidence |-> AverageConfidence(updated),
                 success |-> TRUE, error |-> ""]

\* the claim lists the theme's handlers are checked with
ThemeClaimLists == UNION {[1..n -> ClaimValues] : n \in 0..2}

\* _validate_single_claim for one claim of a later run: execution or storing
\* raises, or the record is stored with the analysis of the response
ClaimOutcomes ==
    {[failed |-> TRUE, rows |-> 0, completion |-> NoCompletion]}
    \cup {[failed |-> FALSE, rows |-> 5,
            completion |-> Ok([support |-> FieldOf("Yes"),
                               confidence |-> FieldOf(<<"0", ".", "8">>),
                               limitations |-> AbsentStr])]}

\* the query of each claim: as _validate_single_claim generates it, and as
\* generate_claims does
ValidationQueries ==
    [c \in ClaimValues |->
        generate_validation_query(c, IF Truthy(c.period) THEN c.period
                                     ELSE Str(Quarter2025Q1))]
GeneratedQueries ==
    [c \in ClaimValues |-> generate_validation_query(c, Str(Quarter2025Q1))]

\* the result _validate_single_claim returns for a claim
ResultOf(claim, o) ==
    LET q == ValidationQueries[claim]
    IN  IF q.raised THEN FailedResult(claim, q.error)
        ELSE IF o.failed THEN FailedResult(claim, TrafficError)
        ELSE ValidatedResult(claim, q.value, o.rows,
                             analyze_validation_results(o.completion, o.rows))

\* the rows store_validation_claim inserts for the validated results
RECURSIVE StoredRows(_)
StoredRows(rs) ==
    IF Len(rs) = 0 THEN <<>>
    ELSE (IF Head(rs).status = "validated"
          THEN <<[ClaimData(Head(rs).claim, Head(rs).query, Head(rs).analysis)
                     EXCEPT !.supports_claim = SqlBool(@)]>>
          ELSE <<>>)
         \o StoredRows(Tail(rs))

\* the rows generate_claims inserts: a claim whose query generation or insert
\* raises is skipped; a failed test execution counts no data points
RECURSIVE GeneratedRows(_, _)
GeneratedRows(cs, os) ==
    IF Len(cs) = 0 THEN <<>>
    ELSE LET q == GeneratedQueries[Head(cs)]
         IN  (IF q.raised \/ Head(os).failed THEN <<>>
              ELSE <<[ClaimData(Head(cs), q.value, NoAnalysis) EXCEPT
                         !.confidence_score = NULL,
                         !.supports_claim = NULL,
                         !.data_points_found = Head(os).rows,
                         !.analysis_text = "AI-generated validation claim"]>>)
             \o GeneratedRows(Tail(cs), Tail(os))

\* the counters of run_bulk_validation; errors lists the ids of the failed
\* claims (the message text is left out)
NoResults == [success |-> 0, failed |-> 0, errors |-> <<>>]

Response(kind, processed, counters) ==
    [kind |-> kind, processed |-> processed, results |-> counters]

InitDashboard ==
    /\ pc = "idle"
    /\ claims = <<>>
    /\ i = 0
    /\ query = NoQuery
    /\ results = NoResults
    /\ completion = NoCompletion
    /\ analysis = NoAnalysis
    /\ validation_results = <<>>
    /\ validation_claims = <<>>
    /\ overall_confidence = Null
    /\ returned = Response("none", 0, NoResults)
    /\ log = <<>>

validate_research_finding_replace ==
    /\ pc = "idle"
    /\ \E cs \in ThemeClaimLists :
       \E os \in [1..Len(cs) -> ClaimOutcomes] :
       \E update \in {"returned", "raised"} :
         LET rs == [k \in 1..Len(cs) |-> ResultOf(cs[k], os[k])]
         IN  /\ Len(validation_claims) + Len(cs) <= MaxRecords
             /\ validation_claims' = StoredRows(rs)
             /\ overall_confidence' =
                    IF Len(cs) = 0 \/ update = "raised"
                    THEN overall_confidence
                    ELSE Stored(calculate_overall_confidence(rs))
             /\ returned' =
                    Response(IF Len(cs) > 0 /\ update = "raised"
                             THEN "validation_error" ELSE "validated",
                             Len(cs), NoResults)
    /\ UNCHANGED <<pc, claims, i, query, results, completion, analysis,
                   validation_results, log>>

\* a whole run of validate_research_finding for the theme
validate_research_finding ==
    /\ pc = "idle"
    /\ \E cs \in ThemeClaimLists :
       \E os \in [1..Len(cs) -> ClaimOutcomes] :
       \E update \in {"returned", "raised"} :
         LET rs == [k \in 1..Len(cs) |-> ResultOf(cs[k], os[k])]
         IN  /\ Len(validation_claims) + Len(cs) <= MaxRecords
             /\ validation_claims' = validation_claims \o StoredRows(rs)
             /\ overall_confidence' =
                    IF Len(cs) = 0 \/ update = "raised"
                    THEN overall_confidence
                    ELSE Stored(calculate_overall_confidence(rs))
             /\ returned' =
                    Response(IF Len(cs) > 0 /\ update = "raised"
                             THEN "validation_error" ELSE "validated",
                             Len(cs), NoResults)
    /\ UNCHANGED <<pc, claims, i, query, results, completion, analysis,
                   validation_results, log>>

\* generate_claims: the theme's records are deleted and the extracted claims
\* inserted as unvalidated records; nothing happens when the theme is not
\* found or extraction raises
generate_claims ==
    /\ pc = "idle"
    /\ \/ /\ returned' = Response("generate_error", 0, NoResults)
          /\ UNCHANGED validation_claims
       \/ \E cs \in ThemeClaimLists :
          \E os \in [1..Len(cs) -> {[failed |-> TRUE, rows |-> 0]}
                                    \cup {[failed |-> FALSE, rows |-> n] :
                                            n \in DashboardRowCounts}] :
             /\ Len(cs) <= MaxRecords
             /\ validation_claims' = GeneratedRows(cs, os)
             /\ returned' =
                    Response("generated", Len(GeneratedRows(cs, os)), NoResults)
    /\ UNCHANGED <<pc, claims, i, query, results, completion, analysis,
                   validation_results, overall_confidence, log>>

\* run_validation_analysis: the route that validates one claim by id
run_validation_analysis ==
    /\ pc = "idle"
    /\ \E claim_id \in 1..(Len(validation_claims) + 1) :
       \E o \in SingleOutcomes :
         LET r == run_single_claim_validation(validation_claims,
                                              overall_confidence, claim_id, o)
         IN  /\ validation_claims' = r.validation_claims
             /\ overall_confidence' = r.overall_confidence
             /\ returned' =
                    Response(IF r.success THEN "analysis" ELSE "analysis_error",
                             1, NoResults)
    /\ UNCHANGED <<pc, claims, i, query, results, completion, analysis,
                   validation_results, log>>

\* run_bulk_validation up to its loop: the pending claims are selected
run_bulk_validation ==
    /\ pc = "idle"
    /\ \/ /\ returned' = Response("bulk_error", 0, NoResults)
          /\ UNCHANGED <<pc, claims, i, results, log>>
       \/ /\ PendingIds(validation_claims) = <<>>
          /\ returned' = Response("no_pending", 0, NoResults)
          /\ UNCHANGED <<pc, claims, i, results, log>>
       \/ /\ PendingIds(validation_claims) # <<>>
          /\ claims' = PendingIds(validation_claims)
          /\ i' = 1
          /\ results' = NoResults
          /\ log' = <<>>
          /\ pc' = "bulk"
          /\ UNCHANGED returned
    /\ UNCHANGED <<query, completion, analysis, validation_results,
                   validation_claims, overall_confidence>>

ValidatePending_break ==
    /\ pc = "bulk"
    /\ \E o \in SingleOutcomes :
         LET r == run_single_claim_validation(validation_claims,
                                              overall_confidence, claims[i], o)
             counted ==
                 IF r.success
                 THEN [results EXCEPT !.success = @ + 1]
                 ELSE [results EXCEPT
                          !.failed = @ + 1,
                          !.errors = Append(@, claims[i])]
         IN  /\ validation_claims' = r.validation_claims
             /\ overall_confidence' = r.overall_confidence
             /\ IF i < Len(claims) /\ r.success
                THEN /\ i' = i + 1
                     /\ results' = counted
                     /\ log' = Append(log, [claim_id |-> claims[i],
                                            fails |-> o.fails,
                                            success |-> r.success])
                     /\ UNCHANGED <<pc, claims, returned>>
                ELSE /\ pc' = "idle"
                     /\ returned' = Response("bulk", Len(claims), counted)
                     /\ claims' = <<>>
                     /\ i' = 0
                     /\ results' = NoResults
                     /\ log' = <<>>
    /\ UNCHANGED <<query, completion, analysis, validation_results>>

\* run_bulk_validation, one turn of its loop: the next pending claim is
\* validated and counted; after the last one the response is returned
ValidatePending ==
    /\ pc = "bulk"
    /\ \E o \in SingleOutcomes :
         LET r == run_single_claim_validation(validation_claims,
                                              overall_confidence, claims[i], o)
             counted ==
                 IF r.success
                 THEN [results EXCEPT !.success = @ + 1]
                 ELSE [results EXCEPT
                          !.failed = @ + 1,
                          !.errors = Append(@, claims[i])]
         IN  /\ validation_claims' = r.validation_claims
             /\ overall_confidence' = r.overall_confidence
             /\ IF i < Len(claims)
                THEN /\ i' = i + 1
                     /\ results' = counted
                     /\ log' = Append(log, [claim_id |-> claims[i],
                                            fails |-> o.fails,
                                            success |-> r.success])
                     /\ UNCHANGED <<pc, claims, returned>>
                ELSE /\ pc' = "idle"
                     /\ returned' = Response("bulk", Len(claims), counted)
                     /\ claims' = <<>>
                     /\ i' = 0
                     /\ results' = NoResults
                     /\ log' = <<>>
    /\ UNCHANGED <<query, completion, analysis, validation_results>>

NextDashboard ==
    \/ validate_research_finding
    \/ generate_claims
    \/ run_validation_analysis
    \/ run_bulk_validation
    \/ ValidatePending

SpecDashboard == InitDashboard /\ [][NextDashboard]_vars

\* C25: run_bulk_validation selects the pending records (confidence NULL or 0,
\* or support flag NULL), each id once, and attempts them one at a time in
\* that order; whatever an attempt returns, the next claim is attempted; the
\* response reports success + failed = number of pending claims.
C25_BulkAttemptsEveryPendingOnce ==
    [][/\ (pc = "idle" /\ pc' = "bulk") =>
            /\ claims' = PendingIds(validation_claims)
            /\ \A a, b \in 1..Len(claims') : claims'[a] = claims'[b] => a = b
            /\ \A k \in 1..Len(validation_claims) :
                  Pending(validation_claims[k])
                      <=> \E a \in 1..Len(claims') : claims'[a] = k
            /\ i' = 1 /\ log' = <<>> /\ results' = NoResults
       /\ pc = "bulk" =>
            /\ i \in 1..Len(claims)
            /\ Len(log) = i - 1
            /\ \A k \in 1..Len(log) : log[k].claim_id = claims[k]
            /\ results.success + results.failed = i - 1
            /\ Len(results.errors) = results.failed
            /\ IF i < Len(claims)
               THEN /\ pc' = "bulk"
                    /\ claims' = claims
                    /\ i' = i + 1
                    /\ Len(log') = i
                    /\ log'[i].claim_id = claims[i]
                    /\ SubSeq(log', 1, i - 1) = log
                    /\ results'.success + results'.failed = i
               ELSE /\ pc' = "idle"
                    /\ returned'.kind = "bulk"
                    /\ returned'.processed = Len(claims)
                    /\ returned'.results.success + returned'.results.failed
                          = Len(claims)
      ]_vars

C25_Witness ==
    /\ pc = "bulk"
    /\ Len(claims) = 2
    /\ i = 2
    /\ log[1].fails = "query"
    /\ ~log[1].success
    /\ results.failed = 1

\* C29: a run of validate_research_finding only appends records: every record
\* stored before it is still there, unchanged, and a claim validated by two
\* runs has two records; the number of records shrinks only in a step of
\* generate_claims, and every other handler keeps each record's claim and
\* query.
C29_ValidationRunsOnlyInsert ==
    [][/\ (pc = "idle" /\ pc' = "idle"
             /\ returned'.kind \in {"validated", "validation_error"}) =>
            /\ Len(validation_claims') >= Len(validation_claims)
            /\ SubSeq(validation_claims', 1, Len(validation_claims))
                  = validation_claims
            /\ \A k \in (Len(validation_claims) + 1)..Len(validation_claims') :
                  /\ validation_claims'[k].confidence_score # NULL
                  /\ validation_claims'[k].supports_claim # NULL
       /\ ~(pc = "idle" /\ pc' = "idle"
              /\ returned'.kind \in {"generated", "generate_error"}) =>
            /\ Len(validation_claims') >= Len(validation_claims)
            /\ \A k \in 1..Len(validation_claims) :
                  /\ validation_claims'[k].claim_text
                        = validation_claims[k].claim_text
                  /\ validation_claims'[k].validation_query
                        = validation_claims[k].validation_query
      ]_vars

C29_Witness ==
    /\ pc = "idle"
    /\ returned.kind = "validated"
    /\ Len(validation_claims) = 2
    /\ validation_claims[1].claim_text = validation_claims[2].claim_text
    /\ validation_claims[1].analysis_text = ResponseText
    /\ validation_claims[2].analysis_text = ResponseText
    /\ validation_claims[1].validation_query
          = validation_claims[2].validation_query

\* the statements of run_single_claim_validation that come before the update
\* of the record
BeforeUpdate == {"select", "query", "write_back", "llm", "update"}

\* C30: a record whose validation query fails is written back with
\* confidence_score 0 and supports_claim 0 and the theme's stored confidence is
\* left alone; the record is then pending. A pending record stays pending
\* through every attempt whose query fails or whose analysis has confidence 0,
\* and run_bulk_validation selects every pending record.
C30_FailingClaimStaysPending ==
    /\ \A claim_id \in 1..Len(validation_claims) : \A o \in SingleOutcomes :
          LET r == run_single_claim_validation(validation_claims,
                                               overall_confidence, claim_id, o)
              row == r.validation_claims[claim_id]
          IN  /\ o.fails = "query" =>
                    /\ row.confidence_score = 0
                    /\ row.supports_claim = 0
                    /\ Pending(row)
                    /\ r.overall_confidence = overall_confidence
                    /\ ~r.success
              /\ (Pending(validation_claims[claim_id])
                    /\ (\/ o.fails \in BeforeUpdate
                        \/ DashboardAnalysis(o.response).confidence = 0)) =>
                    Pending(row)
              /\ Pending(row) =>
                    \E a \in 1..Len(PendingIds(r.validation_claims)) :
                        PendingIds(r.validation_claims)[a] = claim_id
    /\ pc = "bulk" =>
          /\ i = 1 => claims = PendingIds(validation_claims)
          /\ \A k \in 1..Len(log) :
                (log[k].fails \in BeforeUpdate) =>
                    Pending(validation_claims[log[k].claim_id])

C30_Witness ==
    /\ pc = "bulk"
    /\ i = 1
    /\ overall_confidence = Stored(Frac(4, 5))
    /\ \E a \in 1..Len(claims) :
          /\ validation_claims[claims[a]].analysis_text = QueryFailed
          /\ validation_claims[claims[a]].confidence_score = 0
          /\ validation_claims[claims[a]].supports_claim = 0

====
